---- MODULE Spec2Model ----
(***************************************************************************)
(* Model of miniwob/action.py: the MiniWoB action space configuration      *)
(* (ActionSpaceConfig: get_preset, get_action_space, compute_raw_coords)   *)
(* and the dispatcher execute_action.                                      *)
(*                                                                         *)
(* Python values are represented as follows:                               *)
(*   None            the empty tuple <<>>                                  *)
(*   a number        a reduced fraction <<n, d>> with d > 0                *)
(*   a Python int    produced by int(): a TLA+ integer                     *)
(*   a dict          a function from its keys (strings)                    *)
(*   a list / tuple  a sequence (1-based here, 0-based in Python)          *)
(*   an exception    a record [exc, msg, about]                            *)
(***************************************************************************)
EXTENDS Integers, Sequences, FiniteSets, TLC

\* Longest action_types sequence a constructed configuration is given.
MaxTypes == 2

None == <<>>

Range(s) == {s[i] : i \in 1..Len(s)}

-----------------------------------------------------------------------------
\* Python numbers as exact fractions.

Abs(n) == IF n < 0 THEN -n ELSE n

RECURSIVE GCD(_, _)
GCD(a, b) == IF b = 0 THEN a ELSE GCD(b, a % b)

Rat(n, d) ==
    LET s == IF d < 0 THEN -1 ELSE 1
        g == GCD(Abs(n), Abs(d))
    IN  <<(s * n) \div g, (s * d) \div g>>

RatAdd(a, b) == Rat(a[1] * b[2] + b[1] * a[2], a[2] * b[2])
RatMul(a, b) == Rat(a[1] * b[1], a[2] * b[2])
RatDiv(a, b) == Rat(a[1] * b[2], a[2] * b[1])
RatLt(a, b) == a[1] * b[2] < b[1] * a[2]

\* int(x): truncation towards zero.
PyInt(x) == IF x[1] >= 0 THEN x[1] \div x[2] ELSE -((-x[1]) \div x[2])

\* float(x): the same number as a float.
PyFloat(x) == Rat(x[1], x[2])

\* Truthiness of an Optional[float]: None and 0 are falsy.
Truthy(x) == x # None /\ x[1] # 0

-----------------------------------------------------------------------------
\* class ActionTypes and the capability groups.

ActionTypes ==
    {"NONE", "MOVE_COORDS", "CLICK_COORDS", "DBLCLICK_COORDS",
     "MOUSEDOWN_COORDS", "MOUSEUP_COORDS", "CLICK_ELEMENT", "SCROLL_UP",
     "SCROLL_DOWN", "PRESS_KEY", "TYPE_TEXT", "TYPE_FIELD",
     "FOCUS_ELEMENT_AND_TYPE_TEXT", "FOCUS_ELEMENT_AND_TYPE_FIELD"}

COORDS_ACTIONS ==
    {"MOVE_COORDS", "CLICK_COORDS", "DBLCLICK_COORDS", "MOUSEDOWN_COORDS",
     "MOUSEUP_COORDS"}

ELEMENT_ACTIONS_Mutant ==
    {"CLICK_ELEMENT", "FOCUS_ELEMENT_AND_TYPE_FIELD"}

ELEMENT_ACTIONS ==
    {"CLICK_ELEMENT", "FOCUS_ELEMENT_AND_TYPE_TEXT",
     "FOCUS_ELEMENT_AND_TYPE_FIELD"}

TEXT_ACTIONS == {"TYPE_TEXT", "FOCUS_ELEMENT_AND_TYPE_TEXT"}

FIELD_ACTIONS == {"TYPE_FIELD", "FOCUS_ELEMENT_AND_TYPE_FIELD"}

-----------------------------------------------------------------------------
\* Outcomes of a call.

OK == [exc |-> "", msg |-> "", about |-> ""]

Raise(exc, msg, about) == [exc |-> exc, msg |-> msg, about |-> about]

GeometryError ==
    Raise("ValueError", "screen_width and screen_height must be specified.", "")

\* A dict subscript d[k]: KeyError(k) when k is not a key.
HasKey(d, k) == k \in DOMAIN d

\* A list subscript l[i]: negative indices count from the end.
InList(l, i) == -Len(l) <= i /\ i < Len(l)
ListItem(l, i) == IF i >= 0 THEN l[i + 1] ELSE l[Len(l) + i + 1]

-----------------------------------------------------------------------------
\* ActionSpaceConfig

PresetTypes ==
    <<"NONE", "CLICK_COORDS", "CLICK_ELEMENT", "TYPE_TEXT",
      "FOCUS_ELEMENT_AND_TYPE_TEXT">>

\* The dataclass constructor; the remaining fields keep their defaults.
ActionSpaceConfig(action_types, screen_width, screen_height, coord_bins) ==
    [action_types |-> action_types, screen_width |-> screen_width,
     screen_height |-> screen_height, coord_bins |-> coord_bins]

get_preset_Mutant(name) ==
    IF name = "all_supported"
    THEN [outcome |-> OK,
          value |-> ActionSpaceConfig(
              <<"NONE", "CLICK_ELEMENT", "CLICK_COORDS", "TYPE_TEXT",
                "FOCUS_ELEMENT_AND_TYPE_TEXT">>, None, None, None)]
    ELSE [outcome |-> Raise("ValueError", "Unknown preset name", name),
          value |-> None]

get_preset(name) ==
    IF name = "all_supported"
    THEN [outcome |-> OK,
          value |-> ActionSpaceConfig(PresetTypes, None, None, None)]
    ELSE [outcome |-> Raise("ValueError", "Unknown preset name", name),
          value |-> None]

SpaceFields == {"action_type", "coords", "ref", "key", "text", "field"}

\* The keys get_action_space puts into the space dict.
SpaceKeys_Mutant(self) ==
    LET types == Range(self.action_types)
    IN  {k \in SpaceFields :
            \/ k = "action_type"
            \/ k = "coords" /\ COORDS_ACTIONS \cap types # {}
            \/ k = "ref" /\ ELEMENT_ACTIONS \cap types # {}
            \/ k = "key" /\ self.action_types[1] = "PRESS_KEY"
            \/ k = "text" /\ TEXT_ACTIONS \cap types # {}
            \/ k = "field" /\ FIELD_ACTIONS \cap types # {}}

SpaceKeys(self) ==
    LET types == Range(self.action_types)
    IN  {k \in SpaceFields :
            \/ k = "action_type"
            \/ k = "coords" /\ COORDS_ACTIONS \cap types # {}
            \/ k = "ref" /\ ELEMENT_ACTIONS \cap types # {}
            \/ k = "key" /\ "PRESS_KEY" \in types
            \/ k = "text" /\ TEXT_ACTIONS \cap types # {}
            \/ k = "field" /\ FIELD_ACTIONS \cap types # {}}

\* The gymnasium space stored under key k.
SpaceOf(self, k) ==
    CASE k = "action_type" ->
            [space |-> "Discrete", n |-> Len(self.action_types)]
      [] k = "coords" ->
            IF Len(self.coord_bins) > 0
            THEN [space |-> "MultiDiscrete", nvec |-> self.coord_bins]
            ELSE [space |-> "Box", low |-> <<Rat(0, 1), Rat(0, 1)>>,
                  high |-> <<self.screen_width, self.screen_height>>]
      [] k = "ref" -> [space |-> "Discrete", size |-> "MAX_REF"]
      [] k = "key" -> [space |-> "Discrete", size |-> "len(allowed_keys)"]
      [] k = "text" ->
            [space |-> "Text", max_length |-> "text_max_len",
             charset |-> "text_charset"]
      [] k = "field" -> [space |-> "Discrete", size |-> "MAX_FIELDS"]

get_action_space_Mutant(self) ==
    IF /\ COORDS_ACTIONS \cap Range(self.action_types) # {}
       /\ Len(self.coord_bins) > 0
       /\ ~Truthy(self.screen_width) \/ ~Truthy(self.screen_height)
    THEN [outcome |-> GeometryError, value |-> None]
    ELSE [outcome |-> OK,
          value |-> [k \in SpaceKeys(self) |-> SpaceOf(self, k)]]

get_action_space(self) ==
    IF /\ COORDS_ACTIONS \cap Range(self.action_types) # {}
       /\ ~Truthy(self.screen_width) \/ ~Truthy(self.screen_height)
    THEN [outcome |-> GeometryError, value |-> None]
    ELSE [outcome |-> OK,
          value |-> [k \in SpaceKeys(self) |-> SpaceOf(self, k)]]

compute_raw_coords_Mutant(self, action) ==
    IF ~HasKey(action, "coords")
    THEN [outcome |-> Raise("KeyError", "", "coords"), value |-> None]
    ELSE IF Len(self.coord_bins) > 0
    THEN IF ~Truthy(self.screen_width) \/ ~Truthy(self.screen_height)
         THEN [outcome |-> GeometryError, value |-> None]
         ELSE [outcome |-> OK,
               value |->
                 <<RatMul(Rat(PyInt(action.coords[1]), 1),
                          RatDiv(self.screen_width,
                                 Rat(self.coord_bins[1], 1))),
                   RatMul(Rat(PyInt(action.coords[2]), 1),
                          RatDiv(self.screen_height,
                                 Rat(self.coord_bins[2], 1)))>>]
    ELSE [outcome |-> OK,
          value |-> <<PyFloat(action.coords[1]), PyFloat(action.coords[2])>>]

compute_raw_coords(self, action) ==
    IF ~HasKey(action, "coords")
    THEN [outcome |-> Raise("KeyError", "", "coords"), value |-> None]
    ELSE IF Len(self.coord_bins) > 0
    THEN IF ~Truthy(self.screen_width) \/ ~Truthy(self.screen_height)
         THEN [outcome |-> GeometryError, value |-> None]
         ELSE [outcome |-> OK,
               value |->
                 <<RatMul(RatAdd(Rat(1, 2), Rat(PyInt(action.coords[1]), 1)),
                          RatDiv(self.screen_width,
                                 Rat(self.coord_bins[1], 1))),
                   RatMul(RatAdd(Rat(1, 2), Rat(PyInt(action.coords[2]), 1)),
                          RatDiv(self.screen_height,
                                 Rat(self.coord_bins[2], 1)))>>]
    ELSE [outcome |-> OK,
          value |-> <<PyFloat(action.coords[1]), PyFloat(action.coords[2])>>]

-----------------------------------------------------------------------------
\* Dispatcher

Unbound == "<unbound>"

\* The table with the double-click entry bound to the click function.
ACTION_TYPE_TO_SELENIUM_ACTION_FN_Mutant ==
    [k \in {"NONE", "MOVE_COORDS", "CLICK_COORDS", "DBLCLICK_COORDS",
            "MOUSEDOWN_COORDS", "MOUSEUP_COORDS", "CLICK_ELEMENT",
            "TYPE_TEXT", "FOCUS_ELEMENT_AND_TYPE_TEXT"} |->
        CASE k = "NONE" -> "None"
          [] k = "MOVE_COORDS" -> "execute_move_coords"
          [] k = "CLICK_COORDS" -> "execute_click_coords"
          [] k = "DBLCLICK_COORDS" -> "execute_click_coords"
          [] k = "MOUSEDOWN_COORDS" -> "execute_mousedown_coords"
          [] k = "MOUSEUP_COORDS" -> "execute_mouseup_coords"
          [] k = "CLICK_ELEMENT" -> "execute_click_element"
          [] k = "TYPE_TEXT" -> "execute_type_text"
          [] k = "FOCUS_ELEMENT_AND_TYPE_TEXT" ->
                "execute_focus_element_and_type_text"]

\* Names of the selenium_actions functions; None for the no-op.
ACTION_TYPE_TO_SELENIUM_ACTION_FN ==
    [k \in {"NONE", "MOVE_COORDS", "CLICK_COORDS", "DBLCLICK_COORDS",
            "MOUSEDOWN_COORDS", "MOUSEUP_COORDS", "CLICK_ELEMENT",
            "TYPE_TEXT", "FOCUS_ELEMENT_AND_TYPE_TEXT"} |->
        CASE k = "NONE" -> "None"
          [] k = "MOVE_COORDS" -> "execute_move_coords"
          [] k = "CLICK_COORDS" -> "execute_click_coords"
          [] k = "DBLCLICK_COORDS" -> "execute_dblclick_coords"
          [] k = "MOUSEDOWN_COORDS" -> "execute_mousedown_coords"
          [] k = "MOUSEUP_COORDS" -> "execute_mouseup_coords"
          [] k = "CLICK_ELEMENT" -> "execute_click_element"
          [] k = "TYPE_TEXT" -> "execute_type_text"
          [] k = "FOCUS_ELEMENT_AND_TYPE_TEXT" ->
                "execute_focus_element_and_type_text"]

\* A driver call that is made again when the driver raises.
DriverCall_Mutant(fn, args, reads, kind, driver) ==
    [outcome |-> IF driver = "raises"
                 THEN Raise("WebDriverException", "", fn) ELSE OK,
     calls |-> IF driver = "raises"
               THEN <<[fn |-> fn, args |-> args], [fn |-> fn, args |-> args]>>
               ELSE <<[fn |-> fn, args |-> args]>>,
     reads |-> reads, action_type |-> kind]

\* One call of a selenium_actions function on the driver: the call is made,
\* then it returns or raises as the driver decides.
DriverCall(fn, args, reads, kind, driver) ==
    [outcome |-> IF driver = "raises"
                 THEN Raise("WebDriverException", "", fn) ELSE OK,
     calls |-> <<[fn |-> fn, args |-> args]>>,
     reads |-> reads, action_type |-> kind]

\* execute_action ends without a driver call: a raise, or the no-op.
NoCall(outcome, reads, kind) ==
    [outcome |-> outcome, calls |-> <<>>, reads |-> reads,
     action_type |-> kind]

\* The branches with the element branch taken by group membership.
Dispatch_Mutant(action, config, driver, action_type, selenium_action_fn) ==
    IF action_type = "NONE"
    THEN NoCall(OK, {"action_type"}, action_type)
    ELSE IF action_type \in COORDS_ACTIONS
    THEN LET raw == compute_raw_coords(config, action)
         IN  IF raw.outcome # OK
             THEN NoCall(raw.outcome, {"action_type", "coords"}, action_type)
             ELSE DriverCall(selenium_action_fn, raw.value,
                             {"action_type", "coords"}, action_type, driver)
    ELSE IF action_type \in ELEMENT_ACTIONS
    THEN IF ~HasKey(action, "ref")
         THEN NoCall(Raise("KeyError", "", "ref"), {"action_type", "ref"},
                     action_type)
         ELSE DriverCall("execute_click_element", <<PyInt(action.ref)>>,
                         {"action_type", "ref"}, action_type, driver)
    ELSE IF action_type = "TYPE_TEXT"
    THEN IF ~HasKey(action, "text")
         THEN NoCall(Raise("KeyError", "", "text"), {"action_type", "text"},
                     action_type)
         ELSE DriverCall("execute_type_text", <<action.text>>,
                         {"action_type", "text"}, action_type, driver)
    ELSE IF action_type = "FOCUS_ELEMENT_AND_TYPE_TEXT"
    THEN IF ~HasKey(action, "ref")
         THEN NoCall(Raise("KeyError", "", "ref"), {"action_type", "ref"},
                     action_type)
         ELSE IF ~HasKey(action, "text")
         THEN NoCall(Raise("KeyError", "", "text"),
                     {"action_type", "ref", "text"}, action_type)
         ELSE DriverCall("execute_focus_element_and_type_text",
                         <<PyInt(action.ref), action.text>>,
                         {"action_type", "ref", "text"}, action_type, driver)
    ELSE NoCall(Raise("ValueError", "Unsupported action type", action_type),
                {"action_type"}, action_type)

\* The branches of execute_action once action_type and selenium_action_fn
\* are bound.
Dispatch(action, config, driver, action_type, selenium_action_fn) ==
    IF action_type = "NONE"
    THEN NoCall(OK, {"action_type"}, action_type)
    ELSE IF action_type \in COORDS_ACTIONS
    THEN LET raw == compute_raw_coords(config, action)
         IN  IF raw.outcome # OK
             THEN NoCall(raw.outcome, {"action_type", "coords"}, action_type)
             ELSE DriverCall(selenium_action_fn, raw.value,
                             {"action_type", "coords"}, action_type, driver)
    ELSE IF action_type = "CLICK_ELEMENT"
    THEN IF ~HasKey(action, "ref")
         THEN NoCall(Raise("KeyError", "", "ref"), {"action_type", "ref"},
                     action_type)
         ELSE DriverCall("execute_click_element", <<PyInt(action.ref)>>,
                         {"action_type", "ref"}, action_type, driver)
    ELSE IF action_type = "TYPE_TEXT"
    THEN IF ~HasKey(action, "text")
         THEN NoCall(Raise("KeyError", "", "text"), {"action_type", "text"},
                     action_type)
         ELSE DriverCall("execute_type_text", <<action.text>>,
                         {"action_type", "text"}, action_type, driver)
    ELSE IF action_type = "FOCUS_ELEMENT_AND_TYPE_TEXT"
    THEN IF ~HasKey(action, "ref")
         THEN NoCall(Raise("KeyError", "", "ref"), {"action_type", "ref"},
                     action_type)
         ELSE IF ~HasKey(action, "text")
         THEN NoCall(Raise("KeyError", "", "text"),
                     {"action_type", "ref", "text"}, action_type)
         ELSE DriverCall("execute_focus_element_and_type_text",
                         <<PyInt(action.ref), action.text>>,
                         {"action_type", "ref", "text"}, action_type, driver)
    ELSE NoCall(Raise("ValueError", "Unsupported action type", action_type),
                {"action_type"}, action_type)

execute_action(action, config, driver) ==
    IF ~HasKey(action, "action_type")
    THEN NoCall(Raise("KeyError", "", "action_type"), {"action_type"}, Unbound)
    ELSE IF ~InList(config.action_types, action.action_type)
    THEN NoCall(Raise("IndexError", "list index out of range", ""),
                {"action_type"}, Unbound)
    ELSE LET action_type == ListItem(config.action_types, action.action_type)
         IN  IF action_type \notin DOMAIN ACTION_TYPE_TO_SELENIUM_ACTION_FN
             THEN NoCall(Raise("KeyError", "", action_type), {"action_type"},
                         action_type)
             ELSE Dispatch(action, config, driver, action_type,
                           ACTION_TYPE_TO_SELENIUM_ACTION_FN[action_type])

-----------------------------------------------------------------------------
\* Inputs.

\* (screen_width, screen_height): unset, half set, set.
Screens ==
    {<<None, None>>, <<Rat(800, 1), None>>, <<None, Rat(600, 1)>>,
     <<Rat(800, 1), Rat(600, 1)>>, <<Rat(300, 1), Rat(200, 1)>>}
BinChoices == {<<4, 2>>, <<1, 3>>}
PresetNames == {"all_supported", "nonexistent", ""}
CoordInputs ==
    {<<Rat(0, 1), Rat(0, 1)>>, <<Rat(3, 1), Rat(1, 1)>>,
     <<Rat(7, 2), Rat(3, 2)>>, <<Rat(-1, 2), Rat(4, 1)>>}
RefInputs == {Rat(0, 1), Rat(5, 1)}
TextInputs == {"", "hi"}
Drivers == {"returns", "raises"}

\* Sequences of distinct action types, of length 1 .. n.
RECURSIVE TypeSeqs(_)
TypeSeqs(n) ==
    IF n = 0 THEN {}
    ELSE IF n = 1 THEN {<<k>> : k \in ActionTypes}
    ELSE LET shorter == TypeSeqs(n - 1)
             longest == {t \in shorter : Len(t) = n - 1}
         IN  shorter \cup
             UNION {{Append(s, k) : k \in ActionTypes \ Range(s)} :
                    s \in longest}

Configs ==
    {ActionSpaceConfig(t, s[1], s[2], b) :
        t \in TypeSeqs(MaxTypes) \cup {PresetTypes},
        s \in Screens,
        b \in {None} \cup BinChoices}

\* Action instances shaped as the space of the configuration: one value per
\* key of the space.
Instances(self) ==
    LET keys == SpaceKeys(self)
        n == Len(self.action_types)
    IN  {[k \in keys |->
            CASE k = "action_type" -> t
              [] k = "coords" -> c
              [] k = "ref" -> r
              [] k = "text" -> x
              [] k = "key" -> 0
              [] k = "field" -> 0] :
         t \in -(n + 1) .. n, c \in CoordInputs, r \in RefInputs,
         x \in TextInputs}

-----------------------------------------------------------------------------
\* The state: a configuration and the last call made on it.

VARIABLES config, pc, op, name, action, outcome, result, driver_calls,
          reads, action_type

vars == <<config, pc, op, name, action, outcome, result, driver_calls,
          reads, action_type>>

NoAction == [action_type |-> 0]

Init ==
    /\ config \in Configs
    /\ pc = "idle"
    /\ op = ""
    /\ name = ""
    /\ action = NoAction
    /\ outcome = OK
    /\ result = None
    /\ driver_calls = <<>>
    /\ reads = {}
    /\ action_type = Unbound

GetPreset ==
    /\ pc = "idle"
    /\ \E n \in PresetNames :
          LET r == get_preset(n)
          IN  /\ name' = n
              /\ outcome' = r.outcome
              /\ result' = r.value
    /\ pc' = "returned"
    /\ op' = "get_preset"
    /\ action' = NoAction
    /\ driver_calls' = <<>>
    /\ reads' = {}
    /\ action_type' = Unbound
    /\ UNCHANGED config

GetActionSpace ==
    /\ pc = "idle"
    /\ LET r == get_action_space(config)
       IN  /\ outcome' = r.outcome
           /\ result' = r.value
    /\ pc' = "returned"
    /\ op' = "get_action_space"
    /\ name' = ""
    /\ action' = NoAction
    /\ driver_calls' = <<>>
    /\ reads' = {}
    /\ action_type' = Unbound
    /\ UNCHANGED config

ComputeRawCoords ==
    /\ pc = "idle"
    /\ \E c \in CoordInputs :
          LET a == [coords |-> c]
              r == compute_raw_coords(config, a)
          IN  /\ action' = a
              /\ outcome' = r.outcome
              /\ result' = r.value
    /\ pc' = "returned"
    /\ op' = "compute_raw_coords"
    /\ name' = ""
    /\ driver_calls' = <<>>
    /\ reads' = {"coords"}
    /\ action_type' = Unbound
    /\ UNCHANGED config

ExecuteAction ==
    /\ pc = "idle"
    /\ \E a \in Instances(config), driver \in Drivers :
          LET r == execute_action(a, config, driver)
          IN  /\ action' = a
              /\ outcome' = r.outcome
              /\ driver_calls' = r.calls
              /\ reads' = r.reads
              /\ action_type' = r.action_type
    /\ pc' = "returned"
    /\ op' = "execute_action"
    /\ name' = ""
    /\ result' = None
    /\ UNCHANGED config

\* The caller takes the outcome; the action instance is discarded.
Return ==
    /\ pc = "returned"
    /\ pc' = "idle"
    /\ op' = ""
    /\ name' = ""
    /\ action' = NoAction
    /\ outcome' = OK
    /\ result' = None
    /\ driver_calls' = <<>>
    /\ reads' = {}
    /\ action_type' = Unbound
    /\ UNCHANGED config

Next ==
    \/ GetPreset
    \/ GetActionSpace
    \/ ComputeRawCoords
    \/ ExecuteAction
    \/ Return

Spec == Init /\ [][Next]_vars

-----------------------------------------------------------------------------
\* Properties.

Executed == pc = "returned" /\ op = "execute_action"

GeometrySet(c) == c.screen_width # None /\ c.screen_height # None

HasCoordsKind(c) == \E i \in 1..Len(c.action_types) : c.action_types[i] \in COORDS_ACTIONS

\* The kind an in-range index 0 .. len-1 selects.
InRange == action.action_type \in 0 .. Len(config.action_types) - 1
KindAtIndex == config.action_types[action.action_type + 1]

UnwiredKinds ==
    {"SCROLL_UP", "SCROLL_DOWN", "PRESS_KEY", "TYPE_FIELD",
     "FOCUS_ELEMENT_AND_TYPE_FIELD"}

WiredKinds ==
    {"MOVE_COORDS", "CLICK_COORDS", "DBLCLICK_COORDS", "MOUSEDOWN_COORDS",
     "MOUSEUP_COORDS", "CLICK_ELEMENT", "TYPE_TEXT",
     "FOCUS_ELEMENT_AND_TYPE_TEXT"}

\* Exceptions this module or the interpreter raises inside it.
ModuleErrors == {"ValueError", "KeyError", "IndexError"}

\* C1: execute_action on an instance whose index selects SCROLL_UP,
\* SCROLL_DOWN, PRESS_KEY, TYPE_FIELD or FOCUS_ELEMENT_AND_TYPE_FIELD fails
\* with the 'Unsupported action type' ValueError naming that kind, and with no
\* other error.
C1_UnwiredRaisesUnsupported ==
    (Executed /\ InRange /\ KindAtIndex \in UnwiredKinds) =>
        outcome = Raise("ValueError", "Unsupported action type", KindAtIndex)

\* C2: one execute_action makes at most one driver call: none when it fails
\* with an error of this module or resolves NONE, exactly one when it
\* resolves one of the eight wired kinds and no such error occurs.
C2_AtMostOneDriverCall ==
    Executed =>
        /\ Len(driver_calls) <= 1
        /\ outcome.exc \in ModuleErrors => driver_calls = <<>>
        /\ action_type = "NONE" => driver_calls = <<>> /\ outcome = OK
        /\ (action_type \in WiredKinds /\ outcome.exc \notin ModuleErrors) =>
              Len(driver_calls) = 1

C2_Witness ==
    /\ Executed
    /\ action_type = "CLICK_COORDS"
    /\ Len(driver_calls) = 1
    /\ outcome.exc = "WebDriverException"

\* The configurations with the same action types in another order.
Reordered(c) ==
    {[c EXCEPT !.action_types = t] :
        t \in {u \in [1..Len(c.action_types) -> Range(c.action_types)] :
                  Range(u) = Range(c.action_types)}}

\* C3: with the screen dimensions set, get_action_space returns a space that
\* has action_type, has coords / ref / text / field iff action_types meets the
\* respective group, has key iff PRESS_KEY is configured, and has the same keys
\* for every order of action_types.
C3_SchemaFields ==
    (pc = "returned" /\ op = "get_action_space" /\ GeometrySet(config)) =>
        LET types == config.action_types
            has(group) == \E i \in 1..Len(types) : types[i] \in group
        IN  /\ outcome = OK
            /\ "action_type" \in DOMAIN result
            /\ "coords" \in DOMAIN result <=> has(COORDS_ACTIONS)
            /\ "ref" \in DOMAIN result <=> has(ELEMENT_ACTIONS)
            /\ "text" \in DOMAIN result <=> has(TEXT_ACTIONS)
            /\ "field" \in DOMAIN result <=> has(FIELD_ACTIONS)
            /\ "key" \in DOMAIN result <=> has({"PRESS_KEY"})
            /\ DOMAIN result \subseteq SpaceFields
            /\ \A c \in Reordered(config) :
                  /\ get_action_space(c).outcome = OK
                  /\ DOMAIN get_action_space(c).value = DOMAIN result

C3_Witness ==
    /\ pc = "returned"
    /\ op = "get_action_space"
    /\ GeometrySet(config)
    /\ config.action_types = <<"CLICK_COORDS", "PRESS_KEY">>
    /\ DOMAIN result = {"action_type", "coords", "key"}

\* C4 as stated: with a Coordinate kind configured and screen_width or
\* screen_height unset, get_action_space and compute_raw_coords both fail with
\* the missing-geometry error, whether or not coord_bins is set.
C4_Original ==
    (/\ pc = "returned"
     /\ op \in {"get_action_space", "compute_raw_coords"}
     /\ HasCoordsKind(config)
     /\ ~GeometrySet(config)) =>
        outcome = GeometryError

\* C4 amended: with a Coordinate kind configured and screen_width or
\* screen_height unset, get_action_space fails with the missing-geometry error
\* whether or not coord_bins is set; compute_raw_coords fails with it iff
\* coord_bins is set, and otherwise returns the coordinates as floats.
C4_Amended ==
    (/\ pc = "returned"
     /\ HasCoordsKind(config)
     /\ ~GeometrySet(config)) =>
        /\ op = "get_action_space" => outcome = GeometryError
        /\ (op = "compute_raw_coords" /\ config.coord_bins # None) =>
              outcome = GeometryError
        /\ (op = "compute_raw_coords" /\ config.coord_bins = None) =>
              /\ outcome = OK
              /\ result = action.coords

C4_Witness ==
    /\ pc = "returned"
    /\ op = "get_action_space"
    /\ HasCoordsKind(config)
    /\ ~GeometrySet(config)
    /\ config.coord_bins = None
    /\ outcome = GeometryError

\* C5: execute_action fails with IndexError, makes no driver call and
\* resolves no kind for every index outside 0 .. len(action_types)-1,
\* negative indices included.
C5_OutOfBoundsRaisesIndexError ==
    (Executed /\ ~InRange) =>
        /\ outcome.exc = "IndexError"
        /\ driver_calls = <<>>
        /\ action_type = Unbound

DeferredCoordsKinds == {"DBLCLICK_COORDS", "MOUSEDOWN_COORDS", "MOUSEUP_COORDS"}

\* C6 as stated: execute_action on an instance resolving to DBLCLICK_COORDS,
\* MOUSEDOWN_COORDS or MOUSEUP_COORDS fails and makes no driver call.
C6_Original ==
    (Executed /\ InRange /\ KindAtIndex \in DeferredCoordsKinds) =>
        /\ outcome # OK
        /\ driver_calls = <<>>

\* C6 amended: DBLCLICK_COORDS, MOUSEDOWN_COORDS and MOUSEUP_COORDS are
\* accepted by the schema (which has coords) and are dispatched: execute_action
\* makes exactly one driver call, to the double-click, mouse-down or mouse-up
\* primitive respectively, unless compute_raw_coords fails for missing
\* geometry, and then it makes none.
C6_Amended ==
    (Executed /\ InRange /\ KindAtIndex \in DeferredCoordsKinds) =>
        /\ get_action_space(config).outcome = OK =>
              "coords" \in DOMAIN get_action_space(config).value
        /\ IF config.coord_bins # None /\ ~GeometrySet(config)
           THEN outcome = GeometryError /\ driver_calls = <<>>
           ELSE /\ Len(driver_calls) = 1
                /\ outcome.exc \in {"", "WebDriverException"}
                /\ driver_calls[1].fn =
                      CASE KindAtIndex = "DBLCLICK_COORDS" ->
                              "execute_dblclick_coords"
                        [] KindAtIndex = "MOUSEDOWN_COORDS" ->
                              "execute_mousedown_coords"
                        [] KindAtIndex = "MOUSEUP_COORDS" ->
                              "execute_mouseup_coords"

C6_Witness ==
    /\ Executed
    /\ InRange
    /\ KindAtIndex = "DBLCLICK_COORDS"
    /\ outcome = OK
    /\ Len(driver_calls) = 1
    /\ driver_calls[1].fn = "execute_dblclick_coords"

\* One axis of C7: raw = (0.5 + i) * (extent / bins), and for 0 <= i < bins
\* raw lies strictly between i * extent / bins and (i + 1) * extent / bins and
\* strictly between 0 and extent.
BinCentre(raw, i, extent, bins) ==
    /\ raw[1] * 2 * bins * extent[2] = (2 * i + 1) * extent[1] * raw[2]
    /\ (0 <= i /\ i < bins) =>
          /\ RatLt(<<i * extent[1], bins * extent[2]>>, raw)
          /\ RatLt(raw, <<(i + 1) * extent[1], bins * extent[2]>>)
          /\ RatLt(<<0, 1>>, raw)
          /\ RatLt(raw, extent)

\* C7: with coord_bins = (bx, by) and the screen dimensions (W, H) set,
\* compute_raw_coords maps an integer bin pair (i, j) to
\* ((0.5 + i) * (W / bx), (0.5 + j) * (H / by)), the centre of the bin when
\* the pair is in range; bins (4, 2) on 800 x 600 map (0, 0) to (100, 150) and
\* (3, 1) to (700, 450).
C7_BinCentre ==
    (/\ pc = "returned"
     /\ op = "compute_raw_coords"
     /\ config.coord_bins # None
     /\ GeometrySet(config)
     /\ action.coords[1][2] = 1
     /\ action.coords[2][2] = 1) =>
        /\ outcome = OK
        /\ BinCentre(result[1], action.coords[1][1], config.screen_width,
                     config.coord_bins[1])
        /\ BinCentre(result[2], action.coords[2][1], config.screen_height,
                     config.coord_bins[2])
        /\ (/\ config.coord_bins = <<4, 2>>
            /\ config.screen_width = <<800, 1>>
            /\ config.screen_height = <<600, 1>>) =>
              /\ action.coords = <<<<0, 1>>, <<0, 1>>>> =>
                    result = <<<<100, 1>>, <<150, 1>>>>
              /\ action.coords = <<<<3, 1>>, <<1, 1>>>> =>
                    result = <<<<700, 1>>, <<450, 1>>>>

C7_Witness ==
    /\ pc = "returned"
    /\ op = "compute_raw_coords"
    /\ config.coord_bins = <<4, 2>>
    /\ config.screen_width = <<800, 1>>
    /\ config.screen_height = <<600, 1>>
    /\ action.coords = <<<<3, 1>>, <<1, 1>>>>
    /\ outcome = OK
    /\ result = <<<<700, 1>>, <<450, 1>>>>

\* C8: get_preset("all_supported") returns a configuration whose action_types
\* is exactly NONE, CLICK_COORDS, CLICK_ELEMENT, TYPE_TEXT,
\* FOCUS_ELEMENT_AND_TYPE_TEXT in this order; any other name fails with the
\* unknown-preset error and returns nothing.
C8_Preset ==
    (pc = "returned" /\ op = "get_preset") =>
        IF name = "all_supported"
        THEN /\ outcome = OK
             /\ result.action_types =
                   <<"NONE", "CLICK_COORDS", "CLICK_ELEMENT", "TYPE_TEXT",
                     "FOCUS_ELEMENT_AND_TYPE_TEXT">>
        ELSE /\ outcome.exc = "ValueError"
             /\ outcome.msg = "Unknown preset name"
             /\ result = None

C8_Witness ==
    /\ pc = "returned"
    /\ op = "get_preset"
    /\ name = "all_supported"
    /\ outcome = OK
    /\ Len(result.action_types) = 5

\* C9: the driver primitive execute_action calls is fixed by the resolved
\* kind: a Coordinate kind calls its own coordinate primitive with the pair
\* compute_raw_coords returns, CLICK_ELEMENT calls click-element with the
\* integer ref, TYPE_TEXT calls type-text with the text as given, and
\* FOCUS_ELEMENT_AND_TYPE_TEXT calls only the focus-and-type primitive with
\* (ref, text).
C9_PrimitiveByKind ==
    (Executed /\ driver_calls # <<>>) =>
        LET call == driver_calls[1]
        IN  /\ Len(driver_calls) = 1
            /\ CASE action_type \in COORDS_ACTIONS ->
                      /\ call.fn =
                           (CASE action_type = "MOVE_COORDS" ->
                                   "execute_move_coords"
                              [] action_type = "CLICK_COORDS" ->
                                   "execute_click_coords"
                              [] action_type = "DBLCLICK_COORDS" ->
                                   "execute_dblclick_coords"
                              [] action_type = "MOUSEDOWN_COORDS" ->
                                   "execute_mousedown_coords"
                              [] action_type = "MOUSEUP_COORDS" ->
                                   "execute_mouseup_coords")
                      /\ call.args = compute_raw_coords(config, action).value
                 [] action_type = "CLICK_ELEMENT" ->
                      /\ call.fn = "execute_click_element"
                      /\ call.args = <<action.ref[1] \div action.ref[2]>>
                 [] action_type = "TYPE_TEXT" ->
                      /\ call.fn = "execute_type_text"
                      /\ call.args = <<action.text>>
                 [] action_type = "FOCUS_ELEMENT_AND_TYPE_TEXT" ->
                      /\ call.fn = "execute_focus_element_and_type_text"
                      /\ call.args =
                           <<action.ref[1] \div action.ref[2], action.text>>
                 [] OTHER -> FALSE

C9_Witness ==
    /\ Executed
    /\ action_type = "FOCUS_ELEMENT_AND_TYPE_TEXT"
    /\ outcome = OK
    /\ driver_calls =
          <<[fn |-> "execute_focus_element_and_type_text",
             args |-> <<5, "hi">>]>>

\* C10: with the geometry set, for every kind execute_action has a handler
\* for, the fields it reads from the instance (coords for a Coordinate kind,
\* ref for CLICK_ELEMENT, text for TYPE_TEXT, ref and text for
\* FOCUS_ELEMENT_AND_TYPE_TEXT, only action_type for NONE) are keys of the
\* space get_action_space returns, so an instance shaped as the space lacks
\* none of them.
C10_ReadsInSchema ==
    (/\ Executed
     /\ GeometrySet(config)
     /\ action_type \in {"NONE"} \cup WiredKinds) =>
        /\ get_action_space(config).outcome = OK
        /\ reads \subseteq DOMAIN get_action_space(config).value
        /\ reads \subseteq DOMAIN action
        /\ outcome.exc # "KeyError"
        /\ reads =
              {"action_type"}
              \cup (IF action_type \in COORDS_ACTIONS THEN {"coords"} ELSE {})
              \cup (IF action_type \in
                         {"CLICK_ELEMENT", "FOCUS_ELEMENT_AND_TYPE_TEXT"}
                    THEN {"ref"} ELSE {})
              \cup (IF action_type \in
                         {"TYPE_TEXT", "FOCUS_ELEMENT_AND_TYPE_TEXT"}
                    THEN {"text"} ELSE {})

C10_Witness ==
    /\ Executed
    /\ GeometrySet(config)
    /\ config.action_types = <<"FOCUS_ELEMENT_AND_TYPE_TEXT">>
    /\ action_type = "FOCUS_ELEMENT_AND_TYPE_TEXT"
    /\ reads = {"action_type", "ref", "text"}
    /\ outcome = OK

====
